---- MODULE Spec2Model ----
(***************************************************************************)
(* The bucketed batch sampler (dataset.py) and the training orchestrator   *)
(* (learner.py) of Transformer-from-Scratch as one state machine:          *)
(* get_translation_dataloaders builds the two samplers, Learner.__init__   *)
(* builds the training state, and fit runs track_example, validation_epoch *)
(* and training_epoch for every epoch, one action per loop iteration.      *)
(***************************************************************************)
EXTENDS Integers, Sequences, FiniteSets, TLC

\* ------------------------------------------------------------ bounds
MaxTrainSize == 3
MaxValSize == 2
MaxBatchSize == 3
MaxAccum == 2
MaxEpochs == 2
MaxStartEpoch == 1
MaxSaveCnt == 2
MaxLoss == 2
MaxTopN == 2
MaxScore == 6
MaxSaves == 4
MaxSeqLen == 5          \* longest encoded sentence handed to pad_collate_fn
MaxCollate == 3         \* most samples in one batch handed to pad_collate_fn
MaxExamples == 4        \* most examples handed to preprocess_data
MaxExampleLen == 3      \* longest encoded sentence handed to preprocess_data

\* fit calls track_example(epoch_idx, num_examples = 2)
NumExamples == 2

\* Learner.__init__ builds CheckpointSaver(..., decreasing = True, top_n = 5)
TopN == 5
\* pad_collate_fn pads with pad_sequence(..., padding_value = 0)
PaddingValue == 0

Splits == {"train", "val"}
Losses == 1..MaxLoss

VARIABLES
  pc,                     \* where the program is
  size,                   \* len(dataset) of each partition
  batch_size,             \* batch_size given to both samplers
  config,                 \* GRAD_ACCUMULATION_STEPS, MODEL_SAVE_EPOCH_CNT
  scheduler,              \* TRUE iff a scheduler is configured (scheduler != None)
  start_epoch, n_epochs,  \* the arguments of fit
  batch_of_indices,       \* CustomBatchSampler.batch_of_indices of each split
  it,                     \* cursor of the list iterator of the running pass
  yielded,                \* the batches the running pass has yielded so far
  epoch_idx, batch_idx,   \* loop variables of fit and of the batch loops
  loss_sum,               \* local loss_sum of the running epoch method
  training_step, global_step, best_val_loss, best_model_state_dict,
  tensors,                \* the heap of parameter tensors; tensors[LiveRef] is the model's
  mode,                   \* "train" or "eval": model.train() / model.eval()
  grad_acc,               \* number of backward passes accumulated in .grad
  opt_steps, sched_steps, \* calls of optimizer.step and scheduler.step so far
  calls,                  \* what the latest training batch called, in order
  log,                    \* the wandb.log records that carry a step
  table,                  \* rows of the example-tracking table
  flushed,                \* number of wandb.log({'Tracking': table}) calls
  saves,                  \* the checkpointSaver calls: epoch and score
  epoch_hist,             \* per completed epoch: average training loss, final parameters
  phases,                 \* the methods fit has called: epoch and method name
  windows,                \* per optimizer.step: the backward passes its gradients hold
  top_n,                  \* CheckpointSaver.top_n
  retained,               \* the checkpoints CheckpointSaver keeps on disk, best first
  collate_batch,          \* pad_collate_fn's argument `batch`: (source ids, target ids) samples
  padded,                 \* pad_collate_fn's result
  data,                   \* preprocess_data's argument: the examples, as encoded
  max_len,                \* preprocess_data's max_len
  test_proportion,        \* preprocess_data's test_proportion, <<numerator, denominator>>
  partitions              \* preprocess_data's result: data['train'] and data['test']

cfgVars == <<size, batch_size, config, scheduler, start_epoch, n_epochs>>
samplerVars == <<batch_of_indices, it, yielded>>
stateVars == <<training_step, global_step, best_val_loss, best_model_state_dict>>
modelVars == <<tensors, mode, grad_acc, opt_steps, sched_steps>>
outVars == <<log, table, flushed, saves, epoch_hist, calls>>
histVars == <<phases, windows>>
saverVars == <<top_n, retained>>
collateVars == <<collate_batch, padded>>
preprocessVars == <<data, max_len, test_proportion, partitions>>
pureVars == <<collateVars, preprocessVars>>
vars == <<pc, cfgVars, samplerVars, epoch_idx, batch_idx, loss_sum, stateVars,
          modelVars, outVars, histVars, saverVars, pureVars>>

\* ------------------------------------------------------------ helpers
Min(a, b) == IF a < b THEN a ELSE b
Max(a, b) == IF a > b THEN a ELSE b

\* range(len(dataset)) as a sequence of the indices 0 .. n-1
Range(n) == [i \in 1..n |-> i - 1]

\* sum / count kept exact: the pair <<numerator, denominator>>
Div(num, den) == <<num, den>>
Inf == <<1, 0>>
Less(a, b) == a[1] * b[2] < b[1] * a[2]

RECURSIVE Flatten(_)
Flatten(ss) == IF ss = <<>> THEN <<>> ELSE Head(ss) \o Flatten(Tail(ss))

\* ------------------------------------------------------------ CustomBatchSampler
\* torch.split(tensor, chunk_size): max(ceil(n / chunk_size), 1) consecutive
\* pieces, each of chunk_size elements but the last, which takes the rest.
Chunk(indices, chunk_size) ==
  LET n == Len(indices)
      num_splits == Max((n + chunk_size - 1) \div chunk_size, 1)
  IN  [k \in 1..num_splits |->
         SubSeq(indices, (k - 1) * chunk_size + 1, Min(k * chunk_size, n))]

\* CustomBatchSampler.__init__
NewSampler(n, bs) == Chunk(Range(n), bs)

\* a sampler that draws len(list) batches with replacement instead of shuffling
ShuffleWithReplacement(list) ==
  { [i \in 1..Len(list) |-> list[f[i]]] : f \in [1..Len(list) -> 1..Len(list)] }

\* a sampler that shuffles the indices and chunks them again instead of
\* shuffling the chunks
ShuffleIndices(list) ==
  LET flat == Flatten(list)
      width == IF list = <<>> THEN 1 ELSE Max(Len(list[1]), Len(list[Len(list)]))
  IN  { Chunk([i \in 1..Len(flat) |-> flat[p[i]]], Max(width, 1)) :
          p \in Permutations(1..Len(flat)) }

\* random.shuffle(list): every reordering of the list's elements
Shuffle(list) ==
  { [i \in 1..Len(list) |-> list[p[i]]] : p \in Permutations(1..Len(list)) }

\* CustomBatchSampler.__len__
SamplerLen(s) == Len(batch_of_indices[s])

\* DataLoader's collate of one batch of indices: pad_collate_fn hands the
\* fetched samples to pad_sequence, which raises on an empty list.
CollateFails(batch) == Len(batch) = 0

\* next(iter(dataloader)): the first element the list iterator yields fails when
\* there is none (StopIteration) or when it cannot be collated.
FirstBatchFails(list) == Len(list) = 0 \/ CollateFails(list[1])

\* ------------------------------------------------------------ model parameters
\* model.state_dict() refers to the live parameter tensors
LiveRef == 1

\* an assignment of the state_dict itself: the snapshot shares the live tensors
AliasRef(heap, ref) == ref

\* copy.deepcopy(state_dict): the copy lives in fresh tensors
DeepCopyRef(heap, ref) == Len(heap) + 1
DeepCopyHeap(heap, ref) == Append(heap, heap[ref])

\* optimizer.step(): the live parameters change in place
OptimizerStep(heap) == [heap EXCEPT ![LiveRef] = @ + 1]

\* a forward pass followed by an optimizer step
ForwardAndStep(heap) == OptimizerStep(heap)

\* model.translate inside torch.no_grad(): the parameters are read, not written
NoGradForward(heap) == heap

\* the mode left as it is
ModeKept(m) == m

\* model.eval() and model.train() set the module's mode, whatever it was
ModelEval(m) == "eval"
ModelTrain(m) == "train"

\* the cursor of the iterator built before
ResumedIterator(cursor) == cursor

\* iter(dataloader) builds a new iterator over the sampler's list: its cursor
\* starts at the first chunk, wherever earlier iterators over the list stand
NewIterator(cursor) == 0

\* the contents of the retained snapshot
SnapshotContents == tensors[best_model_state_dict]

\* ------------------------------------------------------------ track_example
\* a loop without the break: every row of the batch is tracked
RowsTrackedNoBreak(rows, num_examples) == rows

\* for i in range(rows): if i == num_examples: break; ...; table.add_data(...)
RowsTracked(rows, num_examples) ==
  IF num_examples \in 0..(rows - 1) THEN num_examples ELSE rows

TableRows(epoch, split, batch, num_examples) ==
  [i \in 1..RowsTracked(Len(batch), num_examples) |->
     [epoch |-> epoch, data |-> split, example |-> batch[i]]]

\* ------------------------------------------------------------ training_epoch
\* the test on a step counted from 0
StepsOptimizerFromZero(step, accum) == (step - 1) % accum = 0

\* if self.training_step % self.config.GRAD_ACCUMULATION_STEPS == 0
StepsOptimizer(step, accum) == step % accum = 0

\* the cadence counted from the run's first epoch
SavesCheckpointRelative(epoch, cnt) == (epoch - start_epoch) % cnt = 0

\* if epoch % self.config.MODEL_SAVE_EPOCH_CNT == 0
SavesCheckpoint(epoch, cnt) == epoch % cnt = 0

\* the comparison with <= for <
IsBetterOrEqual(loss_avg, best) == ~Less(best, loss_avg)

\* if loss_avg < self.best_val_loss
IsBetter(loss_avg, best) == Less(loss_avg, best)

\* loss.backward(): one more batch's gradient is added to .grad
Backward(g) == g + 1

\* a reset that is left out
ZeroGradOmitted(g) == g

\* optimizer.zero_grad()
ZeroGrad(g) == 0

\* ------------------------------------------------------------ CheckpointSaver
\* One save request: the new checkpoint is written and ranked among the retained
\* ones (a lower score ranks higher, after equal scores), and what ranks beyond
\* the N best is deleted.
RankOf(kept, ckpt) ==
  Cardinality({ i \in 1..Len(kept) : ~Less(ckpt.score, kept[i].score) })

\* a saver that never deletes
CheckpointSaverKeepsAll(kept, n, ckpt) ==
  LET k == RankOf(kept, ckpt)
  IN  SubSeq(kept, 1, k) \o <<ckpt>> \o SubSeq(kept, k + 1, Len(kept))

CheckpointSaverCall(kept, n, ckpt) ==
  LET k == RankOf(kept, ckpt)
      ranked == SubSeq(kept, 1, k) \o <<ckpt>> \o SubSeq(kept, k + 1, Len(kept))
  IN  SubSeq(ranked, 1, Min(n, Len(ranked)))

\* ------------------------------------------------------------ training_epoch, a batch
\* what one training batch calls after the forward pass
BatchCalls(step, accum, sched) ==
  <<"forward", "backward">>
  \o (IF StepsOptimizer(step, accum)
      THEN <<"optimizer.step">>
           \o (IF sched THEN <<"scheduler.step">> ELSE <<>>)
           \o <<"optimizer.zero_grad">>
      ELSE <<>>)
  \o <<"wandb.log">>

\* a counter that is not advanced
StepNotAdvanced(step) == step

\* self.global_step += 1 after a batch's wandb.log
StepAfterBatch(step) == step + 1

\* self.global_step += 1 after an epoch summary's wandb.log
StepAfterSummary(step) == step + 1

\* self.training_step += 1
NextTrainingStep(step) == step + 1

LogRecord(step, epoch, key) == [step |-> step, epoch |-> epoch, key |-> key]

\* ------------------------------------------------------------ initial state
\* no pad_collate_fn call is under way
NoCollateCall ==
  /\ collate_batch = <<>>
  /\ padded = <<>>

\* no preprocess_data call is under way
NoPreprocessCall ==
  /\ data = <<>>
  /\ max_len = 0
  /\ test_proportion = <<0, 1>>
  /\ partitions = [train |-> <<>>, test |-> <<>>]

NoPureCall == NoCollateCall /\ NoPreprocessCall

\* the saver Learner.__init__ builds, before any save
NoSave ==
  /\ saves = <<>>
  /\ top_n = TopN
  /\ retained = <<>>

\* the samplers and the learner before anything is built
Unbuilt ==
  /\ batch_of_indices = [s \in Splits |-> <<>>]
  /\ it = [s \in Splits |-> 0]
  /\ yielded = <<>>
  /\ epoch_idx = 0
  /\ batch_idx = 0
  /\ loss_sum = 0
  /\ training_step = 0
  /\ global_step = 0
  /\ best_val_loss = Inf
  /\ best_model_state_dict = LiveRef
  /\ tensors = <<0>>
  /\ mode = "train"
  /\ grad_acc = 0
  /\ opt_steps = 0
  /\ sched_steps = 0
  /\ calls = <<>>
  /\ log = <<>>
  /\ table = <<>>
  /\ flushed = 0
  /\ epoch_hist = <<>>
  /\ phases = <<>>
  /\ windows = <<>>

Init ==
  /\ pc = "setup"
  /\ size \in [train : 0..MaxTrainSize, val : 0..MaxValSize]
  /\ batch_size \in 1..MaxBatchSize
  /\ config \in [GRAD_ACCUMULATION_STEPS : 1..MaxAccum,
                 MODEL_SAVE_EPOCH_CNT : 1..MaxSaveCnt]
  /\ scheduler \in BOOLEAN
  /\ start_epoch \in 0..MaxStartEpoch
  /\ n_epochs \in 0..MaxEpochs
  /\ Unbuilt
  /\ NoSave
  /\ NoPureCall

\* ------------------------------------------------------------ construction
\* get_translation_dataloaders: the two CustomBatchSampler are built
GetTranslationDataloaders ==
  /\ pc = "setup"
  /\ batch_of_indices' = [s \in Splits |-> NewSampler(size[s], batch_size)]
  /\ pc' = "dataloaders"
  /\ UNCHANGED <<cfgVars, pureVars, histVars, saverVars, it, yielded, epoch_idx, batch_idx, loss_sum, stateVars,
                 modelVars, outVars>>

\* Learner.__init__
LearnerInit ==
  /\ pc = "dataloaders"
  /\ training_step' = 1
  /\ global_step' = 1
  /\ best_val_loss' = Inf
  /\ best_model_state_dict' = DeepCopyRef(tensors, LiveRef)
  /\ tensors' = DeepCopyHeap(tensors, LiveRef)
  /\ pc' = "learner"
  /\ UNCHANGED <<cfgVars, pureVars, histVars, saverVars, samplerVars, epoch_idx, batch_idx, loss_sum, mode,
                 grad_acc, opt_steps, sched_steps, outVars>>

\* the for statement of fit: the next epoch, or the flush after the last one
NextPcInclusive(e) == IF e <= start_epoch + n_epochs THEN "track_example" ELSE "flush"

NextPc(e) == IF e < start_epoch + n_epochs THEN "track_example" ELSE "flush"

\* fit, up to the first epoch
Fit ==
  /\ pc = "learner"
  /\ table' = <<>>
  /\ epoch_idx' = start_epoch
  /\ pc' = NextPc(start_epoch)
  /\ UNCHANGED <<cfgVars, pureVars, histVars, saverVars, samplerVars, batch_idx, loss_sum, stateVars, modelVars,
                 log, flushed, saves, epoch_hist, calls>>

\* ------------------------------------------------------------ track_example
\* Learner.track_example: model.eval(), then the first batch of a fresh pass over
\* the train loader and of a fresh pass over the validation loader; each
\* iter(dataloader) calls CustomBatchSampler.__iter__, which shuffles in place.
TrackExample ==
  /\ pc = "track_example"
  /\ phases' = Append(phases, [epoch |-> epoch_idx, method |-> "track_example"])
  /\ mode' = ModelEval(mode)
  /\ tensors' = NoGradForward(tensors)
  /\ \E tb \in Shuffle(batch_of_indices["train"]) :
     \E vb \in Shuffle(batch_of_indices["val"]) :
       IF FirstBatchFails(tb)
       THEN /\ batch_of_indices' = [batch_of_indices EXCEPT !["train"] = tb]
            /\ it' = [it EXCEPT !["train"] = NewIterator(@) + 1]
            /\ table' = table
            /\ pc' = "crashed"
       ELSE IF FirstBatchFails(vb)
       THEN /\ batch_of_indices' = [train |-> tb, val |-> vb]
            /\ it' = [s \in Splits |-> NewIterator(it[s]) + 1]
            /\ table' = table \o TableRows(epoch_idx, "Train", tb[1], NumExamples)
            /\ pc' = "crashed"
       ELSE /\ batch_of_indices' = [train |-> tb, val |-> vb]
            /\ it' = [s \in Splits |-> NewIterator(it[s]) + 1]
            /\ table' = table \o TableRows(epoch_idx, "Train", tb[1], NumExamples)
                              \o TableRows(epoch_idx, "Validation", vb[1], NumExamples)
            /\ pc' = "validation_epoch"
  /\ UNCHANGED <<cfgVars, pureVars, windows, saverVars, yielded, epoch_idx, batch_idx, loss_sum, stateVars,
                 grad_acc, opt_steps, sched_steps, log, flushed, saves,
                 epoch_hist, calls>>

\* ------------------------------------------------------------ validation_epoch
\* model.eval(), loss_sum = 0, and the for statement's iter(self.val_dataloader)
ValidationBegin ==
  /\ pc = "validation_epoch"
  /\ phases' = Append(phases, [epoch |-> epoch_idx, method |-> "validation_epoch"])
  /\ mode' = ModelEval(mode)
  /\ loss_sum' = 0
  /\ \E vb \in Shuffle(batch_of_indices["val"]) :
       batch_of_indices' = [batch_of_indices EXCEPT !["val"] = vb]
  /\ it' = [it EXCEPT !["val"] = NewIterator(@)]
  /\ yielded' = <<>>
  /\ batch_idx' = 0
  /\ pc' = "validation_loop"
  /\ UNCHANGED <<cfgVars, pureVars, windows, saverVars, epoch_idx, stateVars, tensors, grad_acc, opt_steps,
                 sched_steps, outVars>>

\* one iteration of the validation loop
ValidationBatch ==
  /\ pc = "validation_loop"
  /\ it["val"] < Len(batch_of_indices["val"])
  /\ LET batch == batch_of_indices["val"][it["val"] + 1]
     IN  /\ it' = [it EXCEPT !["val"] = @ + 1]
         /\ yielded' = Append(yielded, batch)
         /\ IF CollateFails(batch)
            THEN /\ pc' = "crashed"
                 /\ UNCHANGED <<loss_sum, log, global_step, batch_idx>>
            ELSE /\ \E loss \in Losses : loss_sum' = loss_sum + loss
                 /\ log' = Append(log, LogRecord(global_step, epoch_idx, "Validation/Loss"))
                 /\ global_step' = StepAfterBatch(global_step)
                 /\ batch_idx' = batch_idx + 1
                 /\ pc' = "validation_loop"
  /\ UNCHANGED <<cfgVars, pureVars, histVars, saverVars, batch_of_indices, epoch_idx, training_step, best_val_loss,
                 best_model_state_dict, modelVars, table, flushed, saves, epoch_hist,
                 calls>>

\* the validation loop is exhausted: the epoch summary
ValidationSummary ==
  /\ pc = "validation_loop"
  /\ it["val"] >= Len(batch_of_indices["val"])
  /\ log' = Append(log, LogRecord(global_step, epoch_idx, "Validation/Avg_loss"))
  /\ global_step' = StepAfterSummary(global_step)
  /\ loss_sum' = 0
  /\ yielded' = <<>>
  /\ pc' = "training_epoch"
  /\ UNCHANGED <<cfgVars, pureVars, histVars, saverVars, batch_of_indices, it, epoch_idx, batch_idx, training_step,
                 best_val_loss, best_model_state_dict, modelVars, table, flushed,
                 saves, epoch_hist, calls>>

\* ------------------------------------------------------------ training_epoch
\* model.train(), loss_sum = 0, and the for statement's iter(self.train_dataloader)
TrainingBegin ==
  /\ pc = "training_epoch"
  /\ phases' = Append(phases, [epoch |-> epoch_idx, method |-> "training_epoch"])
  /\ mode' = ModelTrain(mode)
  /\ loss_sum' = 0
  /\ \E tb \in Shuffle(batch_of_indices["train"]) :
       batch_of_indices' = [batch_of_indices EXCEPT !["train"] = tb]
  /\ it' = [it EXCEPT !["train"] = NewIterator(@)]
  /\ yielded' = <<>>
  /\ batch_idx' = 0
  /\ pc' = "training_loop"
  /\ UNCHANGED <<cfgVars, pureVars, windows, saverVars, epoch_idx, stateVars, tensors, grad_acc, opt_steps,
                 sched_steps, outVars>>

\* one iteration of the training loop
TrainingBatch ==
  /\ pc = "training_loop"
  /\ it["train"] < Len(batch_of_indices["train"])
  /\ LET batch == batch_of_indices["train"][it["train"] + 1]
         steps == StepsOptimizer(training_step, config.GRAD_ACCUMULATION_STEPS)
     IN  /\ it' = [it EXCEPT !["train"] = @ + 1]
         /\ yielded' = Append(yielded, batch)
         /\ IF CollateFails(batch)
            THEN /\ pc' = "crashed"
                 /\ UNCHANGED <<loss_sum, log, global_step, training_step, batch_idx,
                                tensors, grad_acc, opt_steps, sched_steps, calls,
                                windows>>
            ELSE /\ \E loss \in Losses : loss_sum' = loss_sum + loss
                 /\ calls' = BatchCalls(training_step, config.GRAD_ACCUMULATION_STEPS,
                                        scheduler)
                 /\ tensors' = IF steps THEN OptimizerStep(tensors) ELSE tensors
                 /\ opt_steps' = IF steps THEN opt_steps + 1 ELSE opt_steps
                 /\ sched_steps' = IF steps /\ scheduler THEN sched_steps + 1
                                   ELSE sched_steps
                 /\ windows' = IF steps
                               THEN Append(windows, [grads |-> Backward(grad_acc),
                                                     step |-> training_step])
                               ELSE windows
                 /\ grad_acc' = IF steps THEN ZeroGrad(Backward(grad_acc))
                               ELSE Backward(grad_acc)
                 /\ log' = Append(log, LogRecord(global_step, epoch_idx, "Train/Loss"))
                 /\ global_step' = StepAfterBatch(global_step)
                 /\ training_step' = NextTrainingStep(training_step)
                 /\ batch_idx' = batch_idx + 1
                 /\ pc' = "training_loop"
  /\ UNCHANGED <<cfgVars, pureVars, phases, saverVars, batch_of_indices, epoch_idx, best_val_loss,
                 best_model_state_dict, mode, table, flushed, saves, epoch_hist>>

\* the training loop is exhausted: the epoch summary, the checkpoint on its
\* cadence, the best-model snapshot, and the for statement of fit
TrainingSummary ==
  /\ pc = "training_loop"
  /\ it["train"] >= Len(batch_of_indices["train"])
  /\ LET loss_avg == Div(loss_sum, SamplerLen("train"))
         better == IsBetter(loss_avg, best_val_loss)
     IN  /\ log' = Append(log, LogRecord(global_step, epoch_idx, "Train/Avg_loss"))
         /\ global_step' = StepAfterSummary(global_step)
         /\ saves' = IF SavesCheckpoint(epoch_idx, config.MODEL_SAVE_EPOCH_CNT)
                     THEN Append(saves, [epoch |-> epoch_idx, score |-> loss_avg])
                     ELSE saves
         /\ retained' = IF SavesCheckpoint(epoch_idx, config.MODEL_SAVE_EPOCH_CNT)
                        THEN CheckpointSaverCall(retained, top_n,
                                                 [epoch |-> epoch_idx, score |-> loss_avg])
                        ELSE retained
         /\ best_val_loss' = IF better THEN loss_avg ELSE best_val_loss
         /\ best_model_state_dict' = IF better THEN DeepCopyRef(tensors, LiveRef)
                                     ELSE best_model_state_dict
         /\ tensors' = IF better THEN DeepCopyHeap(tensors, LiveRef) ELSE tensors
         /\ epoch_hist' = Append(epoch_hist, [epoch |-> epoch_idx, loss_avg |-> loss_avg,
                                              state |-> tensors[LiveRef]])
  /\ loss_sum' = 0
  /\ yielded' = <<>>
  /\ calls' = <<>>
  /\ epoch_idx' = epoch_idx + 1
  /\ pc' = NextPc(epoch_idx + 1)
  /\ UNCHANGED <<cfgVars, pureVars, histVars, top_n, batch_of_indices, it, batch_idx, training_step, mode,
                 grad_acc, opt_steps, sched_steps, table, flushed>>

\* wandb.log({'Tracking': self.table})
Flush ==
  /\ pc = "flush"
  /\ flushed' = flushed + 1
  /\ pc' = "done"
  /\ UNCHANGED <<cfgVars, pureVars, histVars, saverVars, samplerVars, epoch_idx, batch_idx, loss_sum, stateVars,
                 modelVars, log, table, saves, epoch_hist, calls>>

Next ==
  \/ GetTranslationDataloaders
  \/ LearnerInit
  \/ Fit
  \/ TrackExample
  \/ ValidationBegin
  \/ ValidationBatch
  \/ ValidationSummary
  \/ TrainingBegin
  \/ TrainingBatch
  \/ TrainingSummary
  \/ Flush

Spec == Init /\ [][Next]_vars

\* ------------------------------------------------------------ CheckpointSaver alone
\* no learner is running: one fixed configuration, nothing built
NoLearner ==
  /\ size = [train |-> 0, val |-> 0]
  /\ batch_size = 1
  /\ config = [GRAD_ACCUMULATION_STEPS |-> 1, MODEL_SAVE_EPOCH_CNT |-> 1]
  /\ scheduler = FALSE
  /\ start_epoch = 0
  /\ n_epochs = 0
  /\ Unbuilt

learnerVars == <<cfgVars, samplerVars, epoch_idx, batch_idx, loss_sum, stateVars,
                 modelVars, log, table, flushed, epoch_hist, calls, histVars>>

SaverInit ==
  /\ pc = "CheckpointSaver"
  /\ NoLearner
  /\ saves = <<>>
  /\ top_n \in 1..MaxTopN
  /\ retained = <<>>
  /\ NoPureCall

\* checkpointSaver(model, optimizer, epoch, score) with any score k / 2
SaveRequest ==
  /\ pc = "CheckpointSaver"
  /\ Len(saves) < MaxSaves
  /\ \E k \in 1..MaxScore :
       LET ckpt == [epoch |-> Len(saves), score |-> Div(k, 2)]
       IN  /\ saves' = Append(saves, ckpt)
           /\ retained' = CheckpointSaverCall(retained, top_n, ckpt)
  /\ UNCHANGED <<pc, learnerVars, top_n, pureVars>>

SaverSpec == SaverInit /\ [][SaveRequest]_vars

\* ------------------------------------------------------------ pad_collate_fn alone
\* The token ids of a batch: id Token(i, side, j) stands at position j of sample
\* i's source (side 0) or target (side 1) sentence, so every id of a batch is
\* distinct and none is the padding value.
Token(i, side, j) == ((i - 1) * 2 + side) * MaxSeqLen + j
Sentence(i, side, length) == [j \in 1..length |-> Token(i, side, j)]

\* the batches of n samples: sample i is the pair (source ids, target ids)
Batches(n) ==
  { [i \in 1..n |-> <<Sentence(i, 0, ls[i]), Sentence(i, 1, lt[i])>>] :
      ls \in [1..n -> 1..MaxSeqLen], lt \in [1..n -> 1..MaxSeqLen] }

\* the length of the longest of the sequences (there is at least one)
MaxSize(sequences) ==
  CHOOSE m \in { Len(sequences[i]) : i \in 1..Len(sequences) } :
    \A i \in 1..Len(sequences) : Len(sequences[i]) <= m

Fill(n, padding_value) == [j \in 1..n |-> padding_value]

PadSequenceLeft(sequences, padding_value) ==
  [i \in 1..Len(sequences) |->
     Fill(MaxSize(sequences) - Len(sequences[i]), padding_value) \o sequences[i]]

\* torch pad_sequence(sequences, batch_first = True, padding_value): one row per
\* sequence, each filled at its end up to the longest sequence's length
PadSequence(sequences, padding_value) ==
  [i \in 1..Len(sequences) |->
     sequences[i] \o Fill(MaxSize(sequences) - Len(sequences[i]), padding_value)]

\* the src_sentences and trg_sentences lists pad_collate_fn gathers
SrcSentences(b) == [i \in 1..Len(b) |-> b[i][1]]
TrgSentences(b) == [i \in 1..Len(b) |-> b[i][2]]

CollateInit ==
  /\ pc = "pad_collate_fn"
  /\ NoLearner
  /\ NoSave
  /\ collate_batch \in UNION { Batches(n) : n \in 0..MaxCollate }
  /\ padded = <<>>
  /\ NoPreprocessCall

\* pad_collate_fn(batch); pad_sequence raises on an empty list
PadCollateFn ==
  /\ pc = "pad_collate_fn"
  /\ IF CollateFails(collate_batch)
     THEN /\ pc' = "raised"
          /\ UNCHANGED padded
     ELSE /\ pc' = "collated"
          /\ padded' = << PadSequence(SrcSentences(collate_batch), PaddingValue),
                          PadSequence(TrgSentences(collate_batch), PaddingValue) >>
  /\ UNCHANGED <<learnerVars, saves, saverVars, collate_batch, preprocessVars>>

CollateSpec == CollateInit /\ [][PadCollateFn]_vars

\* ------------------------------------------------------------ preprocess_data alone
\* The tokenizer is an external collaborator: an example is given by the ids
\* tokenizer.encode returns for its two texts (distinct ids name the example).
Encoded(n) ==
  { [i \in 1..n |-> [translation_src |-> Sentence(i, 0, ls[i]),
                     translation_trg |-> Sentence(i, 1, lt[i])]] :
      ls \in [1..n -> 1..MaxExampleLen], lt \in [1..n -> 1..MaxExampleLen] }

\* the test_size values tried, as <<numerator, denominator>>
TestProportions == { <<1, 4>>, <<1, 2>> }

\* data.map(sequence_length): the two length columns
SequenceLength(example) ==
  [translation_src |-> example.translation_src,
   translation_trg |-> example.translation_trg,
   length_src |-> Len(example.translation_src),
   length_trg |-> Len(example.translation_trg)]

FilterSourceOnly(example, limit) == example.length_src <= limit

FilterLongSentences(example, limit) ==
  example.length_src <= limit /\ example.length_trg <= limit

\* datasets' train_test_split(test_size = p) on n rows: n_test = ceil(p * n)
NTest(p, n) == (p[1] * n + p[2] - 1) \div p[2]
NTrain(p, n) == n - NTest(p, n)
\* it raises ValueError when the train set would be empty
SplitFails(p, n) == NTrain(p, n) = 0

\* Dataset.sort('length_src', reverse = True): the rows in an order of
\* non-increasing length_src
SortDescending(rows) ==
  { order \in [1..Cardinality(rows) -> rows] :
      /\ \A i, j \in 1..Cardinality(rows) : i # j => order[i] # order[j]
      /\ \A i \in 1..(Cardinality(rows) - 1) :
           order[i].length_src >= order[i + 1].length_src }

PreprocessInit ==
  /\ pc = "preprocess_data"
  /\ NoLearner
  /\ NoSave
  /\ NoCollateCall
  /\ data \in UNION { Encoded(n) : n \in 0..MaxExamples }
  /\ max_len \in 1..MaxExampleLen
  /\ test_proportion \in TestProportions
  /\ partitions = [train |-> <<>>, test |-> <<>>]

\* preprocess_data(data, tokenizer, max_len, test_proportion)
PreprocessData ==
  /\ pc = "preprocess_data"
  /\ LET measured == [i \in 1..Len(data) |-> SequenceLength(data[i])]
         kept == { measured[i] : i \in { k \in 1..Len(data) :
                                          FilterLongSentences(measured[k], max_len) } }
     IN  IF SplitFails(test_proportion, Cardinality(kept))
         THEN /\ pc' = "raised"
              /\ UNCHANGED partitions
         ELSE /\ pc' = "preprocessed"
              /\ \E test \in SUBSET kept :
                   /\ Cardinality(test) = NTest(test_proportion, Cardinality(kept))
                   /\ \E tr \in SortDescending(kept \ test), te \in SortDescending(test) :
                        partitions' = [train |-> tr, test |-> te]
  /\ UNCHANGED <<learnerVars, saves, saverVars, collateVars, data, max_len, test_proportion>>

PreprocessSpec == PreprocessInit /\ [][PreprocessData]_vars

\* ------------------------------------------------------------ properties
Constructed == pc \notin {"setup"}
LearnerBuilt == pc \notin {"setup", "dataloaders"}

\* the split whose full pass is running, and whether that pass is exhausted
RunningSplit == IF pc = "validation_loop" THEN "val" ELSE "train"
InPass == pc \in {"validation_loop", "training_loop"}
PassExhausted == InPass /\ it[RunningSplit] >= Len(batch_of_indices[RunningSplit])

Elems(seq) == { seq[i] : i \in 1..Len(seq) }
Count(seq, x) == Cardinality({ i \in 1..Len(seq) : seq[i] = x })

\* C1: the batches of one full pass over a sampler (validation or training, in
\* any epoch) hold, taken together, every index 0..n-1 exactly once.
C1_PassVisitsEachIndexOnce ==
  PassExhausted =>
    LET visited == Flatten(yielded)
    IN  /\ Len(visited) = size[RunningSplit]
        /\ \A x \in 0..(size[RunningSplit] - 1) : Count(visited, x) = 1

\* a later epoch's training pass over 3 indices in batches of 2 that yields the
\* short chunk first
C1_Witness ==
  /\ PassExhausted
  /\ pc = "training_loop"
  /\ epoch_idx > start_epoch
  /\ yielded = << <<2>>, <<0, 1>> >>

\* C2: whatever the number of __iter__ calls, each sampler holds exactly the
\* chunks built at construction, each chunk the same consecutive ascending
\* indices; only the order of the chunks changes.
C2_ChunkContentsFixed ==
  Constructed =>
    \A s \in Splits :
      LET built == Chunk(Range(size[s]), batch_size)
          now == batch_of_indices[s]
      IN  /\ Len(now) = Len(built)
          /\ \A c \in Elems(built) \cup Elems(now) : Count(now, c) = Count(built, c)
          /\ \A k \in 1..Len(now) : \A i \in 1..(Len(now[k]) - 1) :
               now[k][i + 1] = now[k][i] + 1

\* after five __iter__ calls on the train sampler its chunks are presented in
\* another order than at construction
C2_Witness ==
  /\ pc = "training_loop"
  /\ epoch_idx = start_epoch + 1
  /\ size["train"] = 3
  /\ batch_size = 1
  /\ batch_of_indices["train"] = << <<2>>, <<0>>, <<1>> >>

\* the number of epochs fit has completed, and of track_example calls completed
EpochsDone == epoch_idx - start_epoch
InFit == pc \in {"track_example", "validation_epoch", "validation_loop",
                 "training_epoch", "training_loop", "flush", "done"}
TracksDone ==
  IF pc \in {"track_example", "flush", "done"} THEN EpochsDone ELSE EpochsDone + 1

\* steps global_step has taken inside the running epoch
StepsThisEpoch ==
  CASE pc = "validation_loop" -> batch_idx
    [] pc = "training_epoch" -> SamplerLen("val") + 1
    [] pc = "training_loop" -> SamplerLen("val") + 1 + batch_idx
    [] OTHER -> 0

\* C3: global_step is 1 plus one per validation batch and per training batch
\* processed plus one per validation summary and per training summary; after k
\* complete epochs of V validation and T training batches it is 1 + k*(V+T+2).
C3_GlobalStepCount ==
  /\ pc = "learner" => global_step = 1
  /\ InFit =>
       global_step = 1 + EpochsDone * (SamplerLen("val") + SamplerLen("train") + 2)
                       + StepsThisEpoch

\* two complete epochs of 2 validation and 3 training batches each
C3_Witness ==
  /\ pc = "done"
  /\ EpochsDone = 2
  /\ SamplerLen("val") = 2
  /\ SamplerLen("train") = 3
  /\ global_step = 15

\* the earliest epoch of epoch_hist whose average training loss is the lowest
IsMinAt(j) == \A i \in 1..Len(epoch_hist) :
                 ~Less(epoch_hist[i].loss_avg, epoch_hist[j].loss_avg)
EarliestBest == CHOOSE j \in 1..Len(epoch_hist) :
                  IsMinAt(j) /\ \A i \in 1..(j - 1) : ~IsMinAt(i)

\* C4: best_val_loss is the minimum of the epochs' average training losses
\* (infinity before the first epoch) and the snapshot holds the parameters as
\* they were at the end of the earliest epoch that attained it.
C4_BestModelRetention ==
  LearnerBuilt =>
    IF epoch_hist = <<>>
    THEN best_val_loss = Inf /\ SnapshotContents = 0
    ELSE /\ best_val_loss = epoch_hist[EarliestBest].loss_avg
         /\ SnapshotContents = epoch_hist[EarliestBest].state

\* two epochs with the same average loss and different parameters: the snapshot
\* is the first epoch's
C4_Witness ==
  /\ Len(epoch_hist) = 2
  /\ epoch_hist[1].loss_avg = epoch_hist[2].loss_avg
  /\ epoch_hist[1].state # epoch_hist[2].state
  /\ SnapshotContents = epoch_hist[1].state

\* C5: the snapshot never shares the live tensors, and its contents change only
\* in the step that ends a training epoch with a strictly lower average loss.
C5_SnapshotNotAliased ==
  /\ [](LearnerBuilt => best_model_state_dict # LiveRef)
  /\ [][SnapshotContents' # SnapshotContents =>
          /\ pc = "training_loop"
          /\ pc' # "training_loop"
          /\ Less(best_val_loss', best_val_loss)]_vars

\* a snapshot taken at the end of an epoch, and live parameters that an
\* optimizer step has since changed
C5_Witness ==
  /\ pc = "training_loop"
  /\ epoch_hist # <<>>
  /\ best_model_state_dict > 2
  /\ tensors[LiveRef] > SnapshotContents

\* C6: a training batch calls optimizer.step, then scheduler.step if a scheduler
\* is configured, then optimizer.zero_grad, after the backward pass, exactly when
\* training_step at that batch is a multiple of GRAD_ACCUMULATION_STEPS; and
\* training_step is 1 plus the number of training batches processed.
C6_OptimizerStepCadence ==
  LET accum == config.GRAD_ACCUMULATION_STEPS
      at_batch == training_step - 1
      due == \E m \in 0..at_batch : m * accum = at_batch
  IN  /\ (pc = "training_loop" /\ batch_idx > 0) =>
           calls = IF due /\ scheduler
                     THEN <<"forward", "backward", "optimizer.step", "scheduler.step",
                            "optimizer.zero_grad", "wandb.log">>
                   ELSE IF due
                     THEN <<"forward", "backward", "optimizer.step",
                            "optimizer.zero_grad", "wandb.log">>
                   ELSE <<"forward", "backward", "wandb.log">>
      /\ InFit =>
           /\ training_step = 1 + EpochsDone * SamplerLen("train")
                                + (IF pc = "training_loop" THEN batch_idx ELSE 0)
           /\ opt_steps = at_batch \div accum
           /\ sched_steps = IF scheduler THEN opt_steps ELSE 0

\* with an accumulation factor of 2 and a scheduler, the second training batch
\* has just stepped the optimizer, then the scheduler, then reset the gradients
C6_Witness ==
  /\ pc = "training_loop"
  /\ config.GRAD_ACCUMULATION_STEPS = 2
  /\ training_step = 3
  /\ calls = <<"forward", "backward", "optimizer.step", "scheduler.step",
               "optimizer.zero_grad", "wandb.log">>

\* the examples of the rows track_example added in epoch e for one split
RowsOf(e, d) ==
  LET Is(r) == r.epoch = e /\ r.data = d
      rows == SelectSeq(table, Is)
  IN  [i \in 1..Len(rows) |-> rows[i].example]
DataName(s) == IF s = "train" THEN "Train" ELSE "Validation"
TrackedEpochs == start_epoch..(start_epoch + TracksDone - 1)

\* C7 as stated: every track_example call adds exactly 2 * num_examples rows.
C7_ExactlyTwiceNumExamples ==
  InFit => Len(table) = 2 * NumExamples * TracksDone

\* C7 as amended: every completed track_example call adds, per split, the first
\* min(num_examples, batch length) examples of the one batch it drew, so at most
\* 2 * num_examples rows, and exactly that many when no chunk of either sampler
\* is shorter than num_examples.
C7_AtMostTwiceNumExamples ==
  InFit =>
    /\ Len(table) <= 2 * NumExamples * TracksDone
    /\ \A i \in 1..Len(table) : table[i].epoch \in TrackedEpochs
    /\ \A e \in TrackedEpochs : \A s \in Splits :
         \E c \in Elems(batch_of_indices[s]) :
           RowsOf(e, DataName(s)) = SubSeq(c, 1, Min(NumExamples, Len(c)))
    /\ (\A s \in Splits : \A c \in Elems(batch_of_indices[s]) : Len(c) >= NumExamples)
         => Len(table) = 2 * NumExamples * TracksDone

\* two epochs that each tracked 2 of a train batch of 3 and the 1 example of
\* the validation batch
C7_Witness ==
  /\ pc = "done"
  /\ TracksDone = 2
  /\ batch_of_indices["train"] = << <<0, 1, 2>> >>
  /\ size["val"] = 1
  /\ Len(table) = 6

\* C8 as stated: a partition with no examples never gets a sampler that yields
\* a batch with no examples, and the run fails before an epoch is started on it.
C8_EmptyPartitionFails ==
  \A s \in Splits :
    size[s] = 0 =>
      /\ \A k \in 1..Len(batch_of_indices[s]) : batch_of_indices[s][k] # <<>>
      /\ pc \in {"setup", "crashed"}

\* C9 as stated: len(sampler) is ceil(n / b) for every n, at most one chunk is
\* shorter than b and none is longer, before and after any number of passes.
C9_LenIsCeil ==
  Constructed =>
    \A s \in Splits :
      LET now == batch_of_indices[s]
      IN  /\ SamplerLen(s) * batch_size >= size[s]
          /\ (SamplerLen(s) - 1) * batch_size < size[s]
          /\ \A k \in 1..Len(now) : Len(now[k]) <= batch_size
          /\ Cardinality({ k \in 1..Len(now) : Len(now[k]) < batch_size }) <= 1

\* C10: the records logged with a step carry strictly increasing steps over the
\* whole run.
C10_LogStepsIncrease ==
  \A i \in 1..(Len(log) - 1) : log[i].step < log[i + 1].step

\* a finished run of two epochs: validation and training batches and both
\* summaries of each epoch are in the log
C10_Witness ==
  /\ pc = "done"
  /\ EpochsDone = 2
  /\ Len(log) = 2 * (SamplerLen("val") + SamplerLen("train") + 2)
  /\ SamplerLen("val") = 2
  /\ log[Len(log)].key = "Train/Avg_loss"

\* the saved checkpoints that are no longer retained
Deleted == { saves[i] : i \in 1..Len(saves) } \ Elems(retained)

\* C11: after any sequence of save requests the saver retains at most top_n
\* checkpoints, each one saved once, and none of the deleted ones has a lower
\* score than a retained one: the retained are the top_n lowest scores so far.
C11_TopNLowestRetained ==
  /\ Len(retained) = Min(top_n, Len(saves))
  /\ \A c \in Elems(retained) : Count(retained, c) = 1 /\ Count(saves, c) = 1
  /\ \A d \in Deleted : \A c \in Elems(retained) : ~Less(d.score, c.score)

\* the scores 3.0, 1.0, 2.0, 0.5 saved in this order with top_n = 2 leave the
\* checkpoints of 0.5 and 1.0
C11_Witness ==
  /\ top_n = 2
  /\ [i \in 1..Len(saves) |-> saves[i].score] = << <<6, 2>>, <<2, 2>>, <<4, 2>>, <<1, 2>> >>
  /\ [i \in 1..Len(retained) |-> retained[i].score] = << <<1, 2>>, <<2, 2>> >>

\* row r of a padded tensor is sequence s followed by padding up to width w
PaddedRow(r, s, w) ==
  /\ Len(r) = w
  /\ SubSeq(r, 1, Len(s)) = s
  /\ \A j \in (Len(s) + 1)..w : r[j] = 0

\* C12: pad_collate_fn returns a source tensor and a target tensor with one row
\* per sample; every row of a tensor has the length of that tensor's longest
\* sentence in the batch (source and target widths are independent) and is the
\* sample's own ids followed by zeros only.
C12_PaddedToBatchMax ==
  pc = "collated" =>
    /\ Len(padded[1]) = Len(collate_batch)
    /\ Len(padded[2]) = Len(collate_batch)
    /\ \A i \in 1..Len(collate_batch) :
         /\ PaddedRow(padded[1][i], collate_batch[i][1],
                      MaxSize(SrcSentences(collate_batch)))
         /\ PaddedRow(padded[2][i], collate_batch[i][2],
                      MaxSize(TrgSentences(collate_batch)))

\* source lengths 3, 5, 2 give a source tensor of shape (3, 5) whose third row
\* ends in three zeros, next to a narrower target tensor
C12_Witness ==
  /\ pc = "collated"
  /\ [i \in 1..Len(collate_batch) |-> Len(collate_batch[i][1])] = <<3, 5, 2>>
  /\ Len(padded[1]) = 3
  /\ \A i \in 1..3 : Len(padded[1][i]) = 5
  /\ SubSeq(padded[1][3], 3, 5) = <<0, 0, 0>>
  /\ padded[1][3][2] # 0
  /\ Len(padded[2][1]) = 2

\* the rows of both partitions, train first
Partitioned == partitions.train \o partitions.test

\* how often input example i stands in the partitions
Occurrences(i) ==
  Cardinality({ k \in 1..Len(Partitioned) :
                  /\ Partitioned[k].translation_src = data[i].translation_src
                  /\ Partitioned[k].translation_trg = data[i].translation_trg })

WithinMaxLen(i) ==
  Len(data[i].translation_src) <= max_len /\ Len(data[i].translation_trg) <= max_len

NonIncreasing(rows) ==
  \A i \in 1..(Len(rows) - 1) : rows[i].length_src >= rows[i + 1].length_src

\* C13: when preprocess_data returns, an input example stands in the train or
\* test partition exactly once if both its lengths are within max_len and not
\* at all otherwise, the partitions hold nothing else, and each partition is
\* ordered by length_src non-increasing.
C13_FilteredSplitSorted ==
  pc = "preprocessed" =>
    /\ \A i \in 1..Len(data) : Occurrences(i) = IF WithinMaxLen(i) THEN 1 ELSE 0
    /\ Len(Partitioned) = Cardinality({ i \in 1..Len(data) : WithinMaxLen(i) })
    /\ \A k \in 1..Len(Partitioned) :
         /\ Partitioned[k].length_src = Len(Partitioned[k].translation_src)
         /\ Partitioned[k].length_trg = Len(Partitioned[k].translation_trg)
    /\ NonIncreasing(partitions.train)
    /\ NonIncreasing(partitions.test)

\* the third of four examples is dropped for its target length alone; the
\* first two, given shorter first, come out of train longer first
C13_Witness ==
  /\ pc = "preprocessed"
  /\ Len(data) = 4
  /\ Len(data[3].translation_src) <= max_len
  /\ Len(data[3].translation_trg) > max_len
  /\ Len(data[1].translation_src) < Len(data[2].translation_src)
  /\ Len(partitions.train) = 2
  /\ partitions.train[1].translation_src = data[2].translation_src
  /\ partitions.train[2].translation_src = data[1].translation_src
  /\ Len(partitions.test) = 1

\* the methods fit calls in one epoch, in their order
MethodOrder == <<"track_example", "validation_epoch", "training_epoch">>

\* C14: the methods fit has called are, epoch after epoch from start_epoch,
\* track_example, validation_epoch, training_epoch, each once and in this order,
\* never for more than n_epochs epochs; the table is flushed once, and only
\* after the training pass of the last epoch has completed.
C14_EpochPhasesThenFlush ==
  /\ \A j \in 1..Len(phases) :
       phases[j] = [epoch |-> start_epoch + ((j - 1) \div Len(MethodOrder)),
                    method |-> MethodOrder[((j - 1) % Len(MethodOrder)) + 1]]
  /\ Len(phases) <= Len(MethodOrder) * n_epochs
  /\ Len(epoch_hist) <= n_epochs
  /\ flushed = IF pc = "done" THEN 1 ELSE 0
  /\ pc \in {"flush", "done"} =>
       /\ Len(phases) = Len(MethodOrder) * n_epochs
       /\ Len(epoch_hist) = n_epochs

\* a run of two epochs from epoch 1 has ended: six method calls, one flush
C14_Witness ==
  /\ pc = "done"
  /\ start_epoch = 1
  /\ n_epochs = 2
  /\ Len(phases) = 6
  /\ phases[6] = [epoch |-> 2, method |-> "training_epoch"]
  /\ flushed = 1

\* the save requests due for the completed epochs h: one per epoch whose own
\* index is a multiple of MODEL_SAVE_EPOCH_CNT, scored with its average loss
RECURSIVE SavesDue(_)
SavesDue(h) ==
  IF h = <<>> THEN <<>>
  ELSE (IF Head(h).epoch % config.MODEL_SAVE_EPOCH_CNT = 0
        THEN << [epoch |-> Head(h).epoch, score |-> Head(h).loss_avg] >>
        ELSE <<>>) \o SavesDue(Tail(h))

\* C15: the checkpoint saves requested so far are exactly one per completed
\* epoch whose absolute index is a multiple of MODEL_SAVE_EPOCH_CNT, in epoch
\* order, each with that epoch's average training loss as score; and the best
\* loss is the lowest average of all completed epochs, saved or not.
C15_SaveOnAbsoluteCadence ==
  /\ saves = SavesDue(epoch_hist)
  /\ \A i \in 1..Len(epoch_hist) :
       /\ epoch_hist[i].epoch = start_epoch + i - 1
       /\ ~Less(epoch_hist[i].loss_avg, best_val_loss)
  /\ epoch_hist # <<>> =>
       \E i \in 1..Len(epoch_hist) : best_val_loss = epoch_hist[i].loss_avg

\* from epoch 1 with a cadence of 2: epoch 1 updates the snapshot and saves
\* nothing, epoch 2 saves a checkpoint and leaves the snapshot
C15_Witness ==
  /\ start_epoch = 1
  /\ config.MODEL_SAVE_EPOCH_CNT = 2
  /\ Len(epoch_hist) = 2
  /\ Len(saves) = 1
  /\ saves[1] = [epoch |-> 2, score |-> epoch_hist[2].loss_avg]
  /\ best_val_loss = epoch_hist[1].loss_avg
  /\ Less(epoch_hist[1].loss_avg, epoch_hist[2].loss_avg)

\* C16: a track_example call changes none of training_step, global_step,
\* best_val_loss, best_model_state_dict and the parameter tensors.
C16_TrackExampleKeepsState ==
  [][pc = "track_example" =>
       UNCHANGED <<training_step, global_step, best_val_loss,
                   best_model_state_dict, tensors>>]_vars

\* track_example has returned in the second epoch, after optimizer steps and a
\* snapshot of the first epoch
C16_Witness ==
  /\ pc = "validation_epoch"
  /\ epoch_idx = start_epoch + 1
  /\ Len(table) > NumExamples
  /\ training_step > 1
  /\ tensors[LiveRef] > 0
  /\ best_val_loss # Inf

\* C17: the batches of track_example and of validation_epoch are computed in
\* eval mode and those of training_epoch in train mode, in every epoch,
\* whatever mode the method called before has left.
C17_ModePerPhase ==
  /\ pc \in {"validation_epoch", "validation_loop", "training_epoch"} => mode = "eval"
  /\ pc = "training_loop" => mode = "train"

\* the second epoch's training pass is under way in train mode, after a
\* track_example and a validation pass that followed the first training pass
C17_Witness ==
  /\ pc = "training_loop"
  /\ epoch_idx = start_epoch + 1
  /\ Len(phases) = 6
  /\ it["train"] > 0
  /\ mode = "train"

\* C18: the w-th optimizer step is taken at training step w * G with gradients
\* of exactly the G backward passes since the step before, where G is
\* GRAD_ACCUMULATION_STEPS and training steps are counted across epochs; between
\* epochs, after k epochs of T batches, floor(k * T / G) steps have been taken.
C18_AccumulationWindows ==
  LearnerBuilt =>
    LET G == config.GRAD_ACCUMULATION_STEPS
    IN  /\ \A w \in 1..Len(windows) : windows[w] = [grads |-> G, step |-> w * G]
        /\ opt_steps = Len(windows)
        /\ opt_steps = (training_step - 1) \div G
        /\ grad_acc = (training_step - 1) % G
        /\ pc \notin {"training_loop", "crashed"} =>
             opt_steps = (Len(epoch_hist) * SamplerLen("train")) \div G

\* two epochs of 3 batches with G = 2: three steps, the second on the last
\* batch of the first epoch and the first batch of the second
C18_Witness ==
  /\ pc = "flush"
  /\ config.GRAD_ACCUMULATION_STEPS = 2
  /\ SamplerLen("train") = 3
  /\ Len(epoch_hist) = 2
  /\ opt_steps = 3
  /\ windows[2] = [grads |-> 2, step |-> 4]

\* the batches among bs that hold index x
Holding(bs, x) == { k \in 1..Len(bs) : x \in Elems(bs[k]) }

\* C19: a running full pass has yielded the chunks of its sampler's list from
\* the first one on, in the list's order, whatever the iterators track_example
\* built and left; once exhausted every index of the partition lies in exactly
\* one of its batches; and no step taken while a pass runs reorders its list.
C19_PassesDoNotInterfere ==
  /\ [](InPass =>
         /\ yielded = SubSeq(batch_of_indices[RunningSplit], 1, it[RunningSplit])
         /\ PassExhausted =>
              /\ Len(yielded) = SamplerLen(RunningSplit)
              /\ \A x \in 0..(size[RunningSplit] - 1) :
                   Cardinality(Holding(yielded, x)) = 1)
  /\ [][InPass => batch_of_indices'[RunningSplit] = batch_of_indices[RunningSplit]]_vars

\* the second epoch's training pass over three chunks is exhausted, in an order
\* that is not the one of construction
C19_Witness ==
  /\ pc = "training_loop"
  /\ PassExhausted
  /\ epoch_idx = start_epoch + 1
  /\ yielded = << <<1>>, <<2>>, <<0>> >>

====
